---------------------------- MODULE Spec2Model ----------------------------
(***************************************************************************)
(* Fuzz / classify / patch pipeline of the firmware security loop:         *)
(*   scripts/fuzz_test.py        the fuzz harness                          *)
(*   scripts/analyze_results.py  the evidence scanner and the aggregator   *)
(*   scripts/llm_refine.py       the patch workflow                        *)
(* Text is a sequence of one-character strings, so that lower(), strip(),  *)
(* readlines(), the substring test and str.replace() are computed.         *)
(* File contents are the text Python sees after decoding.                  *)
(***************************************************************************)
EXTENDS Integers, Sequences, FiniteSets, TLC

VARIABLES
    \* --- evidence scanner called on one file (analyze_results.py)
    scanFile,        \* [exists, text]: the file handed to parse_file_for_threats
    vulnerabilities, \* the list parse_file_for_threats returned for it
    scanPc,          \* "call" before the call, "returned" after it
    \* --- the file system shared by the stages
    artifacts,       \* [exists, files]: directory test_artifacts/, name -> content
    staticDir,       \* [exists, files]: directory test_artifacts/static_analysis/
    \* --- fuzz harness (fuzz_test.py)
    fuzzPc,          \* position of the harness process
    iteration,       \* loop variable i of main / parameter of fuzz_once
    fuzz_data,       \* payload of the running iteration
    proc,            \* the emulator process of fuzz_once
    emulators,       \* emulator processes alive in the operating system
    sent,            \* bytes delivered to the emulator's stdin
    out,             \* captured stdout
    err,             \* captured stderr
    \* --- analysis aggregator (analyze_results.py main)
    aggPc,           \* "idle", or "returned" once main has returned
    results,         \* the list main collected
    \* --- patch workflow (llm_refine.py main)
    codeFiles,       \* path -> text of the source files and backups that exist
    patchPc,         \* position of the workflow
    vulns_by_file,   \* the groups, in dict insertion order: <<[fname, vulns]>>
    fileIdx,         \* index of the group the outer loop is at
    actual_path,     \* resolved path of that group
    sorted_vulns,    \* the group's items sorted by line
    itemIdx,         \* index of the item the inner loop is at
    snippet,         \* list of lines read_code_snippet returned
    suggested_code,  \* code block extracted from the reply
    original_content, \* apply_patch_to_file: file content read
    patched_content, \* apply_patch_to_file: content after replace
    console          \* per-item outcome messages printed so far

scanVars == <<scanFile, vulnerabilities, scanPc>>
fsVars   == <<artifacts, staticDir>>
fuzzVars == <<fuzzPc, iteration, fuzz_data, proc, emulators, sent, out, err>>
aggVars  == <<aggPc, results>>
patchVars == <<codeFiles, patchPc, vulns_by_file, fileIdx, actual_path, sorted_vulns,
               itemIdx, snippet, suggested_code, original_content, patched_content,
               console>>
vars == <<scanFile, vulnerabilities, scanPc, artifacts, staticDir,
          fuzzPc, iteration, fuzz_data, proc, emulators, sent, out, err, aggPc, results,
          codeFiles, patchPc, vulns_by_file, fileIdx, actual_path, sorted_vulns,
          itemIdx, snippet, suggested_code, original_content, patched_content,
          console>>

-----------------------------------------------------------------------------
(* Python str primitives                                                   *)

UPPER == <<"A","B","C","D","E","F","G","H","I","J","K","L","M","N","O","P","Q","R","S","T","U","V","W","X","Y","Z">>
LOWER == <<"a","b","c","d","e","f","g","h","i","j","k","l","m","n","o","p","q","r","s","t","u","v","w","x","y","z">>

UpperSet == {UPPER[n] : n \in 1..Len(UPPER)}
LowerTable == [c \in UpperSet |-> LOWER[CHOOSE n \in 1..Len(UPPER) : UPPER[n] = c]]

\* str.lower() on one character
LowerChar(c) == IF c \in UpperSet THEN LowerTable[c] ELSE c

\* str.lower()
lower(s) == [n \in 1..Len(s) |-> LowerChar(s[n])]

\* characters str.strip() removes
Whitespace == {" ", "\n", "\t", "\r"}

\* str.strip()
strip(s) ==
    LET keep == {n \in 1..Len(s) : s[n] \notin Whitespace}
    IN  IF keep = {} THEN <<>>
        ELSE LET lo == CHOOSE n \in keep : \A m \in keep : n <= m
                 hi == CHOOSE n \in keep : \A m \in keep : m <= n
             IN  SubSeq(s, lo, hi)

\* the in operator on strings: sub in s
Contains(sub, s) ==
    \E p \in 1..(Len(s) - Len(sub) + 1) :
        \A j \in 1..Len(sub) : s[p + j - 1] = sub[j]

\* str.startswith / str.endswith
startswith(s, prefix) ==
    Len(prefix) <= Len(s) /\ SubSeq(s, 1, Len(prefix)) = prefix
endswith(s, suffix) ==
    Len(suffix) <= Len(s) /\ SubSeq(s, Len(s) - Len(suffix) + 1, Len(s)) = suffix

\* "".join(list)
RECURSIVE join(_)
join(list) == IF list = <<>> THEN <<>> ELSE Head(list) \o join(Tail(list))

\* file.readlines(): the text cut after every "\n", line ends kept
RECURSIVE readlines(_)
readlines(text) ==
    IF text = <<>> THEN <<>>
    ELSE LET nl == {n \in 1..Len(text) : text[n] = "\n"}
         IN  IF nl = {} THEN <<text>>
             ELSE LET n == CHOOSE k \in nl : \A m \in nl : k <= m
                  IN  <<SubSeq(text, 1, n)>> \o readlines(SubSeq(text, n + 1, Len(text)))

-----------------------------------------------------------------------------
(* analyze_results.py: threat taxonomy and evidence scanner                *)

\* THREAT_KEYWORDS, in declaration order (dict iteration order)
THREAT_KEYWORDS == <<
    [keyword |-> <<"o","v","e","r","f","l","o","w">>,       threat |-> "Buffer Overflow",
     cwe |-> "CWE-120: Classic Buffer Overflow"],
    [keyword |-> <<"s","t","a","c","k"," ","o","v","e","r","f","l","o","w">>, threat |-> "Buffer Overflow",
     cwe |-> "CWE-120: Classic Buffer Overflow"],
    [keyword |-> <<"h","a","r","d"," ","f","a","u","l","t">>,     threat |-> "Potential Crash or Memory Fault",
     cwe |-> "CWE-730: Null Pointer or System Crash"],
    [keyword |-> <<"r","a","c","e"," ","c","o","n","d","i","t","i","o","n">>, threat |-> "Concurrency Issue",
     cwe |-> "CWE-362: Race Condition"],
    [keyword |-> <<"a","s","s","e","r","t">>,         threat |-> "Assertion Failure",
     cwe |-> "N/A"],
    [keyword |-> <<"d","o","s">>,            threat |-> "Denial of Service",
     cwe |-> "CWE-400: Uncontrolled Resource Consumption"],
    [keyword |-> <<"m","i","s","s","e","d"," ","d","e","a","d","l","i","n","e">>, threat |-> "Real-Time Violation",
     cwe |-> "CWE-400: Uncontrolled Resource Consumption"],
    [keyword |-> <<"m","a","l","l","o","c"," ","f","a","i","l","e","d">>,  threat |-> "Memory Allocation Failure",
     cwe |-> "CWE-401: Memory Leak or Resource Exhaustion"],
    [keyword |-> <<"e","r","r","o","r">>,          threat |-> "Generic Error",
     cwe |-> "N/A"] >>

\* a file that does not exist
NoFile == [exists |-> FALSE, text |-> <<>>]
File(text) == [exists |-> TRUE, text |-> text]

\* ScanKeywords with a break after the first matching keyword (at most one
\* item per line)
RECURSIVE ScanKeywords_firstMatchOnly(_, _, _, _, _)
ScanKeywords_firstMatchOnly(basename, i, line, line_lower, k) ==
    IF k > Len(THREAT_KEYWORDS) THEN <<>>
    ELSE LET info == THREAT_KEYWORDS[k]
         IN  IF Contains(info.keyword, line_lower)
             THEN << [file |-> basename, line |-> i + 1,
                      keyword |-> info.keyword, threat |-> info.threat,
                      cwe |-> info.cwe, line_text |-> strip(line)] >>
             ELSE ScanKeywords_firstMatchOnly(basename, i, line, line_lower, k + 1)

\* inner loop of parse_file_for_threats: the items of line i (0-based) with
\* lower-cased text line_lower, keywords k..end in taxonomy order
RECURSIVE ScanKeywords(_, _, _, _, _)
ScanKeywords(basename, i, line, line_lower, k) ==
    IF k > Len(THREAT_KEYWORDS) THEN <<>>
    ELSE LET info == THREAT_KEYWORDS[k]
         IN  (IF Contains(info.keyword, line_lower)
              THEN << [file |-> basename, line |-> i + 1,
                       keyword |-> info.keyword, threat |-> info.threat,
                       cwe |-> info.cwe, line_text |-> strip(line)] >>
              ELSE <<>>)
             \o ScanKeywords(basename, i, line, line_lower, k + 1)

\* outer loop of parse_file_for_threats: enumerate(lines) from index i
RECURSIVE ScanLines(_, _, _)
ScanLines(basename, lines, i) ==
    IF i >= Len(lines) THEN <<>>
    ELSE ScanKeywords(basename, i, lines[i + 1], lower(lines[i + 1]), 1)
         \o ScanLines(basename, lines, i + 1)

\* parse_file_for_threats(filepath); f is the file at that path
parse_file_for_threats(basename, f) ==
    IF ~f.exists THEN <<>>
    ELSE ScanLines(basename, readlines(f.text), 0)

-----------------------------------------------------------------------------
(* Scanner inputs: texts built from at most MaxPieces pieces               *)

MaxPieces == 3

ScanPieces == { <<"S","t","a","c","k"," ">>, <<"O","V","E","R","F","L","O","W">>, <<"o","v","e","r">>, <<"f","l","o","w"," ">>, <<"\n">>, <<"D","o","s"," ","E","r","r","o","r">> }

RECURSIVE PieceTexts(_)
PieceTexts(n) ==
    IF n = 0 THEN { <<>> }
    ELSE LET shorter == PieceTexts(n - 1)
         IN  shorter \cup { t \o p : t \in shorter, p \in ScanPieces }

ScanInputs == { File(t) : t \in PieceTexts(MaxPieces) } \cup { NoFile }

ScanName == <<"c","o","n","s","o","l","e","_","l","o","g",".","t","x","t">>

\* no scanner call in progress
ScanIdle ==
    /\ scanFile = NoFile
    /\ vulnerabilities = <<>>
    /\ scanPc = "returned"

ScanInit ==
    /\ scanFile \in ScanInputs
    /\ vulnerabilities = <<>>
    /\ scanPc = "call"

\* the call parse_file_for_threats(filepath) on the file drawn by ScanInit
ScanCall ==
    /\ scanPc = "call"
    /\ vulnerabilities' = parse_file_for_threats(ScanName, scanFile)
    /\ scanPc' = "returned"
    /\ UNCHANGED scanFile
    /\ UNCHANGED <<fsVars, fuzzVars, aggVars, patchVars>>

\* --- what claim C1 speaks of, stated without the scanner's own loops
\* positions of the line ends of a text
NewlineAt(text) == {n \in 1..Len(text) : text[n] = "\n"}
\* number of lines of a text (a last line needs no line end)
LineCount(text) ==
    Cardinality(NewlineAt(text))
    + (IF text # <<>> /\ text[Len(text)] # "\n" THEN 1 ELSE 0)
\* the 1-indexed line L of a text, 1 <= L <= LineCount(text)
LineOf(text, L) ==
    LET before == {n \in NewlineAt(text) :
                      Cardinality({m \in NewlineAt(text) : m <= n}) = L - 1}
        first  == IF L = 1 THEN 1 ELSE (CHOOSE n \in before : TRUE) + 1
        ends   == {n \in NewlineAt(text) : n >= first}
        last   == IF ends = {} THEN Len(text)
                  ELSE CHOOSE n \in ends : \A m \in ends : n <= m
    IN  SubSeq(text, first, last)
\* keyword k occurs in the line when case is ignored
OccursIgnoringCase(k, line) ==
    \E off \in 0..(Len(line) - Len(k)) :
        \A j \in 1..Len(k) : LowerChar(line[off + j]) = k[j]
Keywords == {THREAT_KEYWORDS[n].keyword : n \in 1..Len(THREAT_KEYWORDS)}
\* how many returned items carry line L and keyword k
ItemCount(L, k) ==
    Cardinality({n \in 1..Len(vulnerabilities) :
                    vulnerabilities[n].line = L /\ vulnerabilities[n].keyword = k})

\* C1: for every text, every 1-indexed line L and every taxonomy keyword k, the
\* scanner returns exactly one item with line L and keyword k when k occurs in
\* the lower-cased line L, and none otherwise; matches are not de-duplicated.
C1_OneItemPerLineAndKeyword ==
    (scanPc = "returned" /\ scanFile.exists) =>
        /\ \A n \in 1..Len(vulnerabilities) :
              /\ vulnerabilities[n].line \in 1..LineCount(scanFile.text)
              /\ vulnerabilities[n].keyword \in Keywords
        /\ \A L \in 1..LineCount(scanFile.text) : \A k \in Keywords :
              ItemCount(L, k) =
                 IF OccursIgnoringCase(k, LineOf(scanFile.text, L)) THEN 1 ELSE 0

\* C1 witness: line 2 holds "stack overflow" in mixed case and yields one item
\* for "stack overflow" and one for "overflow"; line 1 yields none.
C1_Witness ==
    /\ scanPc = "returned"
    /\ scanFile.exists
    /\ LineCount(scanFile.text) = 2
    /\ ItemCount(2, <<"s","t","a","c","k"," ","o","v","e","r","f","l","o","w">>) = 1
    /\ ItemCount(2, <<"o","v","e","r","f","l","o","w">>) = 1
    /\ Len(vulnerabilities) = 2
    /\ lower(LineOf(scanFile.text, 2)) # LineOf(scanFile.text, 2)


-----------------------------------------------------------------------------
(* Directories                                                             *)

\* a directory that does not exist
NoDir == [exists |-> FALSE, files |-> <<>>]
Dir(files) == [exists |-> TRUE, files |-> files]

\* os.listdir: the names in the directory
listdir(dir) == DOMAIN dir.files

\* open(name, "w") + write in an existing directory
WriteFile(dir, name, content) ==
    Dir([n \in listdir(dir) \cup {name} |->
            IF n = name THEN content ELSE dir.files[n]])

\* os.remove of every name in gone
RemoveFiles(dir, gone) ==
    Dir([n \in listdir(dir) \ gone |-> dir.files[n]])

\* every order in which os.listdir may hand out the names in S
Orders(S) ==
    {q \in [1..Cardinality(S) -> S] : \A a, b \in DOMAIN q : a # b => q[a] # q[b]}

\* neither directory exists
FsNone ==
    /\ artifacts = NoDir
    /\ staticDir = NoDir

-----------------------------------------------------------------------------
(* fuzz_test.py: the fuzz harness                                          *)

\* number of iterations of a session (fuzz_test.py:28 sets 10)
NUM_ITERATIONS == 2

\* f"{iteration}"
IterStr(i) == <<<<"0">>, <<"1">>, <<"2">>, <<"3">>, <<"4">>, <<"5">>, <<"6">>, <<"7">>, <<"8">>, <<"9">>>>[i + 1]

input_filename(i) == <<"f","u","z","z","_","i","n","p","u","t","_">> \o IterStr(i) \o <<".","b","i","n">>
log_filename(i)   == <<"f","u","z","z","_","c","r","a","s","h","l","o","g","_">> \o IterStr(i) \o <<".","t","x","t">>

\* clear_old_logs with the "fuzz_input_" prefix forgotten
clear_old_logs_keepsInputs(dir) ==
    IF dir.exists
    THEN RemoveFiles(dir, {fname \in listdir(dir) :
                              \/ startswith(fname, <<"f","u","z","z","_","c","r","a","s","h","l","o","g","_">>)
                              \/ startswith(fname, <<"f","u","z","z","_","f","r","e","e","z","e","l","o","g","_">>)})
    ELSE dir

\* clear_old_logs(): the artifacts directory it leaves
clear_old_logs(dir) ==
    IF dir.exists
    THEN RemoveFiles(dir, {fname \in listdir(dir) :
                              \/ startswith(fname, <<"f","u","z","z","_","c","r","a","s","h","l","o","g","_">>)
                              \/ startswith(fname, <<"f","u","z","z","_","f","r","e","e","z","e","l","o","g","_">>)
                              \/ startswith(fname, <<"f","u","z","z","_","i","n","p","u","t","_">>)})
    ELSE dir

\* create_random_data(): the payloads the model draws (1 to 2*max_size random
\* bytes in the code)
create_random_data == { <<65>>, <<200, 10>> }

\* fuzz_data.decode('latin-1') followed by the UTF-8 encoding of the text-mode
\* stdin pipe: bytes from 128 on take two bytes
RECURSIVE EncodeStdin(_)
EncodeStdin(data) ==
    IF data = <<>> THEN <<>>
    ELSE (IF Head(data) < 128 THEN <<Head(data)>>
          ELSE <<192 + (Head(data) \div 64), 128 + (Head(data) % 64)>>)
         \o EncodeStdin(Tail(data))

\* what the emulator may print: <<stdout, stderr>>
EmulatorOutputs == {
    <<<<"t","i","c","k","\n">>, <<>>>>,
    <<<<"M","i","s","s","e","d"," ","D","e","a","d","l","i","n","e","!","\n">>, <<>>>>,
    <<<<"t","i","c","k","\n">>, <<"q","e","m","u",":"," ","M","I","S","S","E","D"," ","D","E","A","D","L","I","N","E","\n">>>> }

\* the test of fuzz_once on the captured output, stdout only
MissedDeadline_stdoutOnly(o, e) ==
    Contains(<<"m","i","s","s","e","d"," ","d","e","a","d","l","i","n","e">>, lower(o))

\* the test of fuzz_once on the captured output
MissedDeadline(o, e) ==
    LET out_lower == lower(o)
        err_lower == lower(e)
    IN  Contains(<<"m","i","s","s","e","d"," ","d","e","a","d","l","i","n","e">>, out_lower) \/ Contains(<<"m","i","s","s","e","d"," ","d","e","a","d","l","i","n","e">>, err_lower)

\* the text fuzz_once writes to the anomaly log
CrashLog(o, e) == <<"=","=","="," ","S","T","D","O","U","T"," ","=","=","=","\n">> \o o \o <<"\n","=","=","="," ","S","T","D","E","R","R"," ","=","=","=","\n">> \o e

\* positions at which the harness process is not running
FuzzEnded == {"idle", "done", "FileNotFoundError", "KeyboardInterrupt"}

\* the emulator processes that are alive: those launched by iterations of the
\* running session (by iteration number), and whether one that an earlier
\* session left behind is still there
NoEmulators == [session |-> {}, orphaned |-> FALSE]
Started(em, i) == [em EXCEPT !.session = @ \cup {i}]
Ended(em, i) == [em EXCEPT !.session = @ \ {i}]

\* no fuzz session has run
FuzzIdle ==
    /\ fuzzPc = "idle"
    /\ iteration = 0
    /\ fuzz_data = <<>>
    /\ proc = "none"
    /\ emulators = NoEmulators
    /\ sent = <<>>
    /\ out = <<>>
    /\ err = <<>>

\* main(): build_firmware_if_needed (AUTO_BUILD is False), clear_old_logs, and
\* entry to the for loop
FuzzMainStart ==
    /\ fuzzPc \in FuzzEnded
    /\ aggPc = "idle"
    /\ artifacts' = clear_old_logs(artifacts)
    /\ iteration' = 0
    /\ fuzz_data' = <<>>
    /\ proc' = "none"
    /\ emulators' = [session |-> {},
                     orphaned |-> emulators.orphaned \/ emulators.session # {}]
    /\ sent' = <<>>
    /\ out' = <<>>
    /\ err' = <<>>
    /\ fuzzPc' = "loop"
    /\ UNCHANGED <<staticDir, scanVars, aggVars, patchVars>>

\* main(): for i in range(NUM_ITERATIONS): time.sleep(1); after the loop the
\* completion message
FuzzLoop ==
    /\ fuzzPc = "loop"
    /\ fuzzPc' = IF iteration < NUM_ITERATIONS THEN "generate" ELSE "done"
    /\ UNCHANGED <<iteration, fuzz_data, proc, emulators, sent, out, err>>
    /\ UNCHANGED <<fsVars, scanVars, aggVars, patchVars>>

\* fuzz_once: create_random_data and the write of the input file; open() raises
\* FileNotFoundError when test_artifacts/ does not exist
FuzzGenerate ==
    /\ fuzzPc = "generate"
    /\ \E data \in create_random_data :
          /\ fuzz_data' = data
          /\ IF artifacts.exists
             THEN /\ artifacts' = WriteFile(artifacts, input_filename(iteration), data)
                  /\ fuzzPc' = "launch"
             ELSE /\ artifacts' = artifacts
                  /\ fuzzPc' = "FileNotFoundError"
    /\ UNCHANGED <<iteration, proc, emulators, sent, out, err>>
    /\ UNCHANGED <<staticDir, scanVars, aggVars, patchVars>>

\* fuzz_once: subprocess.Popen(qemu_cmd, ...)
FuzzLaunch ==
    /\ fuzzPc = "launch"
    /\ proc' = "running"
    /\ emulators' = Started(emulators, iteration)
    /\ fuzzPc' = "wait"
    /\ UNCHANGED <<iteration, fuzz_data, sent, out, err>>
    /\ UNCHANGED <<fsVars, scanVars, aggVars, patchVars>>

\* fuzz_once: proc.communicate(input, timeout) returns, the emulator has exited
FuzzWaitCompleted ==
    /\ fuzzPc = "wait"
    /\ sent' = EncodeStdin(fuzz_data)
    /\ \E oe \in EmulatorOutputs :
          /\ out' = oe[1]
          /\ err' = oe[2]
    /\ proc' = "exited"
    /\ emulators' = Ended(emulators, iteration)
    /\ fuzzPc' = "classify"
    /\ UNCHANGED <<iteration, fuzz_data>>
    /\ UNCHANGED <<fsVars, scanVars, aggVars, patchVars>>

\* fuzz_once: proc.communicate(input, timeout) raises TimeoutExpired
FuzzWaitTimeout ==
    /\ fuzzPc = "wait"
    /\ sent' = EncodeStdin(fuzz_data)
    /\ fuzzPc' = "timedout"
    /\ UNCHANGED <<iteration, fuzz_data, proc, emulators, out, err>>
    /\ UNCHANGED <<fsVars, scanVars, aggVars, patchVars>>

\* the handler of TimeoutExpired re-raising instead of reclaiming the process
FuzzKillAndDrain_reraise ==
    /\ fuzzPc = "timedout"
    /\ fuzzPc' = "TimeoutExpired"
    /\ UNCHANGED <<iteration, fuzz_data, proc, emulators, sent, out, err>>
    /\ UNCHANGED <<fsVars, scanVars, aggVars, patchVars>>

\* the handler of TimeoutExpired going on without proc.kill() and without
\* waiting for the process
FuzzKillAndDrain_noKill ==
    /\ fuzzPc = "timedout"
    /\ out' = <<>>
    /\ err' = <<>>
    /\ fuzzPc' = "classify"
    /\ UNCHANGED <<iteration, fuzz_data, proc, emulators, sent>>
    /\ UNCHANGED <<fsVars, scanVars, aggVars, patchVars>>

\* fuzz_once, except TimeoutExpired: proc.kill(); out, err = proc.communicate()
FuzzKillAndDrain ==
    /\ fuzzPc = "timedout"
    /\ proc' = "killed"
    /\ emulators' = Ended(emulators, iteration)
    /\ \E oe \in EmulatorOutputs :
          /\ out' = oe[1]
          /\ err' = oe[2]
    /\ fuzzPc' = "classify"
    /\ UNCHANGED <<iteration, fuzz_data, sent>>
    /\ UNCHANGED <<fsVars, scanVars, aggVars, patchVars>>

\* fuzz_once: the missed-deadline test and the write of the anomaly log; the
\* return to main's loop
FuzzClassify ==
    /\ fuzzPc = "classify"
    /\ artifacts' = IF MissedDeadline(out, err)
                    THEN WriteFile(artifacts, log_filename(iteration), CrashLog(out, err))
                    ELSE artifacts
    /\ iteration' = iteration + 1
    /\ fuzzPc' = "loop"
    /\ UNCHANGED <<fuzz_data, proc, emulators, sent, out, err>>
    /\ UNCHANGED <<staticDir, scanVars, aggVars, patchVars>>

\* KeyboardInterrupt in the harness: no handler in fuzz_once or main, the
\* exception leaves main. A running emulator is not killed; it may have ended
\* by itself in the meantime.
FuzzInterrupt ==
    /\ fuzzPc \notin FuzzEnded
    /\ fuzzPc' = "KeyboardInterrupt"
    /\ proc' \in (IF proc = "running" THEN {"running", "exited"} ELSE {proc})
    /\ emulators' = IF proc' = proc THEN emulators ELSE Ended(emulators, iteration)
    /\ UNCHANGED <<iteration, fuzz_data, sent, out, err>>
    /\ UNCHANGED <<fsVars, scanVars, aggVars, patchVars>>

-----------------------------------------------------------------------------
(* analyze_results.py: the aggregator                                      *)

REPORT_NAME == <<"a","n","a","l","y","s","i","s","_","r","e","p","o","r","t",".","j","s","o","n">>

\* json.dump(results) / json.load: a JSON document holding the list
json_dump(list) == [json |-> list]
json_load(doc) == doc.json

\* the scans of the files of dir in the given order, concatenated
RECURSIVE ScanInOrder(_, _, _)
ScanInOrder(dir, order, n) ==
    IF n > Len(order) THEN <<>>
    ELSE parse_file_for_threats(order[n], File(dir.files[order[n]]))
         \o ScanInOrder(dir, order, n + 1)

\* analyze_fuzz_logs: the names it scans
FuzzLogNames(dir) ==
    IF ~dir.exists THEN {}
    ELSE {fname \in listdir(dir) :
             startswith(fname, <<"f","u","z","z","_","c","r","a","s","h","l","o","g","_">>) /\ endswith(fname, <<".","t","x","t">>)}

\* analyze_static_analysis_logs: the names it scans
StaticLogNames(dir) ==
    IF ~dir.exists THEN {}
    ELSE {fname \in listdir(dir) : endswith(fname, <<".","t","x","t">>) \/ endswith(fname, <<".","l","o","g">>)}

\* the aggregator has not run
AggIdle ==
    /\ aggPc = "idle"
    /\ results = <<>>

\* main(): collect from the fuzz logs, then from the static-analysis logs; on
\* an empty list print and return, else write the report
AnalyzeMain ==
    /\ aggPc = "idle"
    /\ fuzzPc \in FuzzEnded
    /\ \E fo \in Orders(FuzzLogNames(artifacts)), so \in Orders(StaticLogNames(staticDir)) :
          LET found == ScanInOrder(artifacts, fo, 1) \o ScanInOrder(staticDir, so, 1)
          IN  /\ results' = found
              /\ artifacts' = IF found = <<>> THEN artifacts
                              ELSE WriteFile(artifacts, REPORT_NAME, json_dump(found))
    /\ aggPc' = "returned"
    /\ UNCHANGED <<staticDir, fuzzVars, scanVars, patchVars>>

\* the aggregator process exits
AnalyzeExit ==
    /\ aggPc = "returned"
    /\ aggPc' = "idle"
    /\ results' = <<>>
    /\ UNCHANGED <<fsVars, fuzzVars, scanVars, patchVars>>

-----------------------------------------------------------------------------
(* llm_refine.py: the patch workflow                                       *)

TARGET_CODE_FILE == <<".",".","/","m","a","i","n",".","c">>

\* os.path.basename
basename(path) ==
    LET slashes == {n \in 1..Len(path) : path[n] = "/"}
    IN  IF slashes = {} THEN path
        ELSE SubSeq(path, (CHOOSE n \in slashes : \A m \in slashes : m <= n) + 1, Len(path))

\* an absent value (None) or a present one
None == [some |-> FALSE, value |-> <<>>]
Some(v) == [some |-> TRUE, value |-> v]

\* load_analysis_report(ANALYSIS_REPORT)
load_analysis_report(dir) ==
    IF ~(dir.exists /\ REPORT_NAME \in listdir(dir)) THEN <<>>
    ELSE json_load(dir.files[REPORT_NAME])

\* main(): the keys of vulns_by_file in insertion order
RECURSIVE GroupKeys(_, _)
GroupKeys(vs, seen) ==
    IF vs = <<>> THEN <<>>
    ELSE IF Head(vs).file \in seen THEN GroupKeys(Tail(vs), seen)
    ELSE <<Head(vs).file>> \o GroupKeys(Tail(vs), seen \cup {Head(vs).file})

\* main(): vulns_by_file
GroupByFile(vs) ==
    LET keys == GroupKeys(vs, {})
    IN  [g \in 1..Len(keys) |->
            [fname |-> keys[g],
             vulns |-> SelectSeq(vs, LAMBDA v : v.file = keys[g])]]

\* sorted(vulns, key=line): stable insertion of v into a sorted list
RECURSIVE InsertByLine(_, _)
InsertByLine(v, list) ==
    IF list = <<>> THEN <<v>>
    ELSE IF Head(list).line <= v.line
         THEN <<Head(list)>> \o InsertByLine(v, Tail(list))
         ELSE <<v>> \o list
RECURSIVE SortByLine(_)
SortByLine(vs) ==
    IF vs = <<>> THEN <<>>
    ELSE InsertByLine(vs[Len(vs)], SortByLine(SubSeq(vs, 1, Len(vs) - 1)))

Max(a, b) == IF a >= b THEN a ELSE b
Min(a, b) == IF a <= b THEN a ELSE b

\* read_code_snippet(filepath, line_num, context)
read_code_snippet(files, filepath, line_num, context) ==
    IF filepath \notin DOMAIN files THEN None
    ELSE LET lines == readlines(files[filepath])
             start_line == Max(0, line_num - context - 1)
             end_line == Min(Len(lines), line_num + context)
         IN  Some(SubSeq(lines, start_line + 1, end_line))

\* the backquote character (a TLA+ string cannot hold it)
Backquote == "bq"

\* positions at which a fence (three backquotes) starts in a text, from lo on
FenceAt(text, lo) ==
    {p \in lo..(Len(text) - 2) :
        text[p] = Backquote /\ text[p + 1] = Backquote /\ text[p + 2] = Backquote}
Least(S) == CHOOSE n \in S : \A m \in S : n <= m

\* extract_code_block(suggestion_text): the shortest text between the first
\* fence and the next one (re.search, non-greedy, DOTALL), stripped
extract_code_block(text) ==
    IF FenceAt(text, 1) = {} THEN None
    ELSE LET open == Least(FenceAt(text, 1))
         IN  IF FenceAt(text, open + 3) = {} THEN None
             ELSE Some(strip(SubSeq(text, open + 3, Least(FenceAt(text, open + 3)) - 1)))

\* str.replace(old, new): every non-overlapping occurrence, left to right; an
\* empty old matches before every character and at the end
MatchesFrom(text, old, lo) ==
    {p \in lo..(Len(text) - Len(old) + 1) : \A j \in 1..Len(old) : text[p + j - 1] = old[j]}
RECURSIVE ReplaceFrom(_, _, _, _)
ReplaceFrom(text, old, new, lo) ==
    IF MatchesFrom(text, old, lo) = {} THEN SubSeq(text, lo, Len(text))
    ELSE LET p == Least(MatchesFrom(text, old, lo))
         IN  SubSeq(text, lo, p - 1) \o new \o ReplaceFrom(text, old, new, p + Len(old))
ReplaceEmpty(text, new) ==
    LET k == Len(new)
        n == Len(text)
    IN  [i \in 1..((n + 1) * k + n) |->
            IF (i - 1) % (k + 1) < k THEN new[((i - 1) % (k + 1)) + 1]
            ELSE text[((i - 1) \div (k + 1)) + 1]]
replace(text, old, new) ==
    IF old = <<>> THEN ReplaceEmpty(text, new) ELSE ReplaceFrom(text, old, new, 1)

\* what the code-generation service may answer
LLMReplies == {
    <<"C","h","e","c","k"," ","t","h","e"," ","l","e","n","g","t","h"," ","b","e","f","o","r","e"," ","t","h","e"," ","c","a","l","l",".">>,
    <<"F","i","x",":","\n","bq","bq","bq","\n","f","o","o","_","c","h","e","c","k","e","d","(",")",";","\n","bq","bq","bq","\n","T","h","e"," ","c","a","l","l"," ","i","s"," ","n","o","w"," ","b","o","u","n","d","e","d",".">>,
    <<"bq","bq","bq","c","\n","f","o","o","(",")",";","\n","bq","bq","bq"," ","a","n","d"," ","bq","bq","bq","x","bq","bq","bq">> }

\* an out-of-band edit of a source file: a space before the first "("
Reformat(text) ==
    LET parens == {n \in 1..Len(text) : text[n] = "("}
    IN  IF parens = {} THEN text
        ELSE LET p == Least(parens)
             IN  IF p > 1 /\ text[p - 1] = " " THEN text
                 ELSE SubSeq(text, 1, p - 1) \o <<" ">> \o SubSeq(text, p, Len(text))

\* positions at which the workflow process is not running
PatchEnded == {"idle", "finished", "aborted"}

\* the workflow has not run and no source file exists
PatchIdle ==
    /\ codeFiles = <<>>
    /\ patchPc = "idle"
    /\ vulns_by_file = <<>>
    /\ fileIdx = 0
    /\ actual_path = <<>>
    /\ sorted_vulns = <<>>
    /\ itemIdx = 0
    /\ snippet = <<>>
    /\ suggested_code = <<>>
    /\ original_content = <<>>
    /\ patched_content = <<>>
    /\ console = <<>>

\* main(): load the report; nothing to refine, or group by file
PatchMainStart ==
    /\ patchPc = "idle"
    /\ LET vulnerabilities_ == load_analysis_report(artifacts)
       IN  IF vulnerabilities_ = <<>>
           THEN /\ patchPc' = "finished"
                /\ console' = Append(console, "Nothing to refine")
                /\ UNCHANGED <<vulns_by_file, fileIdx>>
           ELSE /\ patchPc' = "file"
                /\ vulns_by_file' = GroupByFile(vulnerabilities_)
                /\ fileIdx' = 1
                /\ UNCHANGED console
    /\ UNCHANGED <<codeFiles, actual_path, sorted_vulns, itemIdx, snippet,
                   suggested_code, original_content, patched_content>>
    /\ UNCHANGED <<fsVars, fuzzVars, aggVars, scanVars>>

\* main(): head of the loop over vulns_by_file.items(): resolve the path
\* or skip the group; sort the group's items
PatchFile ==
    /\ patchPc = "file"
    /\ IF fileIdx > Len(vulns_by_file)
       THEN /\ patchPc' = "finished"
            /\ UNCHANGED <<fileIdx, actual_path, sorted_vulns, itemIdx, console>>
       ELSE LET fname == vulns_by_file[fileIdx].fname
                resolvable == fname \in DOMAIN codeFiles \/ fname = basename(TARGET_CODE_FILE)
            IN  IF ~resolvable
                THEN /\ console' = Append(console, "Skipping file")
                     /\ fileIdx' = fileIdx + 1
                     /\ UNCHANGED <<patchPc, actual_path, sorted_vulns, itemIdx>>
                ELSE /\ actual_path' = IF fname \in DOMAIN codeFiles THEN fname
                                       ELSE TARGET_CODE_FILE
                     /\ sorted_vulns' = SortByLine(vulns_by_file[fileIdx].vulns)
                     /\ itemIdx' = 1
                     /\ patchPc' = "item"
                     /\ UNCHANGED <<fileIdx, console>>
    /\ UNCHANGED <<codeFiles, vulns_by_file, snippet, suggested_code,
                   original_content, patched_content>>
    /\ UNCHANGED <<fsVars, fuzzVars, aggVars, scanVars>>

\* main(): head of the loop over sorted_vulns: read_code_snippet, or the end of
\* the group
PatchItem ==
    /\ patchPc = "item"
    /\ IF itemIdx > Len(sorted_vulns)
       THEN /\ fileIdx' = fileIdx + 1
            /\ patchPc' = "file"
            /\ UNCHANGED <<itemIdx, snippet, console>>
       ELSE LET got == read_code_snippet(codeFiles, actual_path,
                                         sorted_vulns[itemIdx].line, 5)
            IN  IF ~got.some
                THEN /\ console' = Append(console, "Cannot read snippet")
                     /\ itemIdx' = itemIdx + 1
                     /\ UNCHANGED <<patchPc, fileIdx, snippet>>
                ELSE /\ snippet' = got.value
                     /\ patchPc' = "prompt"
                     /\ UNCHANGED <<itemIdx, fileIdx, console>>
    /\ UNCHANGED <<codeFiles, vulns_by_file, actual_path, sorted_vulns,
                   suggested_code, original_content, patched_content>>
    /\ UNCHANGED <<fsVars, fuzzVars, aggVars, scanVars>>

\* main(): prompt_llm_for_fix returns a reply; extract_code_block; without a
\* code block the item is advisory only
PatchPromptReply ==
    /\ patchPc = "prompt"
    /\ \E suggestion \in LLMReplies :
          LET code == extract_code_block(suggestion)
          IN  IF code.some /\ code.value # <<>>
              THEN /\ suggested_code' = code.value
                   /\ patchPc' = "apply"
                   /\ UNCHANGED <<itemIdx, console>>
              ELSE /\ console' = Append(console, "No clear code block")
                   /\ itemIdx' = itemIdx + 1
                   /\ patchPc' = "item"
                   /\ UNCHANGED suggested_code
    /\ UNCHANGED <<codeFiles, vulns_by_file, fileIdx, actual_path, sorted_vulns,
                   snippet, original_content, patched_content>>
    /\ UNCHANGED <<fsVars, fuzzVars, aggVars, scanVars>>

\* prompt_llm_for_fix: openai.ChatCompletion.create raises (network, quota,
\* authentication); nothing catches it, the exception leaves main
PatchPromptRaises ==
    /\ patchPc = "prompt"
    /\ patchPc' = "aborted"
    /\ UNCHANGED <<codeFiles, vulns_by_file, fileIdx, actual_path, sorted_vulns, itemIdx,
                   snippet, suggested_code, original_content, patched_content, console>>
    /\ UNCHANGED <<fsVars, fuzzVars, aggVars, scanVars>>

\* another writer edits the target while the workflow waits for the reply
PatchExternalEdit ==
    /\ patchPc = "prompt"
    /\ Reformat(codeFiles[actual_path]) # codeFiles[actual_path]
    /\ codeFiles' = [codeFiles EXCEPT ![actual_path] = Reformat(@)]
    /\ UNCHANGED <<patchPc, vulns_by_file, fileIdx, actual_path, sorted_vulns, itemIdx,
                   snippet, suggested_code, original_content, patched_content, console>>
    /\ UNCHANGED <<fsVars, fuzzVars, aggVars, scanVars>>

\* ApplyRead that writes the backup before it compares
ApplyRead_backupFirst ==
    /\ patchPc = "apply"
    /\ original_content' = codeFiles[actual_path]
    /\ patched_content' = replace(codeFiles[actual_path], join(snippet), suggested_code)
    /\ codeFiles' = [n \in DOMAIN codeFiles \cup {actual_path \o <<".","b","a","k">>} |->
                        IF n = actual_path \o <<".","b","a","k">> THEN codeFiles[actual_path]
                        ELSE codeFiles[n]]
    /\ IF patched_content' = original_content'
       THEN /\ console' = Append(console, "WARNING: Could not apply patch")
            /\ itemIdx' = itemIdx + 1
            /\ patchPc' = "item"
       ELSE /\ patchPc' = "write"
            /\ UNCHANGED <<itemIdx, console>>
    /\ UNCHANGED <<vulns_by_file, fileIdx, actual_path, sorted_vulns,
                   snippet, suggested_code>>
    /\ UNCHANGED <<fsVars, fuzzVars, aggVars, scanVars>>

\* apply_patch_to_file: read the file, replace, compare; on no change warn and
\* return
ApplyRead ==
    /\ patchPc = "apply"
    /\ original_content' = codeFiles[actual_path]
    /\ patched_content' = replace(codeFiles[actual_path], join(snippet), suggested_code)
    /\ IF patched_content' = original_content'
       THEN /\ console' = Append(console, "WARNING: Could not apply patch")
            /\ itemIdx' = itemIdx + 1
            /\ patchPc' = "item"
       ELSE /\ patchPc' = "backup"
            /\ UNCHANGED <<itemIdx, console>>
    /\ UNCHANGED <<codeFiles, vulns_by_file, fileIdx, actual_path, sorted_vulns,
                   snippet, suggested_code>>
    /\ UNCHANGED <<fsVars, fuzzVars, aggVars, scanVars>>

\* ApplyBackup that saves the patched content
ApplyBackup_savesPatched ==
    /\ patchPc = "backup"
    /\ codeFiles' = [n \in DOMAIN codeFiles \cup {actual_path \o <<".","b","a","k">>} |->
                        IF n = actual_path \o <<".","b","a","k">> THEN patched_content
                        ELSE codeFiles[n]]
    /\ patchPc' = "write"
    /\ UNCHANGED <<vulns_by_file, fileIdx, actual_path, sorted_vulns, itemIdx,
                   snippet, suggested_code, original_content, patched_content, console>>
    /\ UNCHANGED <<fsVars, fuzzVars, aggVars, scanVars>>

\* apply_patch_to_file: write original_content to file_path + ".bak"; open()
\* may raise OSError, which leaves main
ApplyBackup ==
    /\ patchPc = "backup"
    /\ \/ /\ codeFiles' = [n \in DOMAIN codeFiles \cup {actual_path \o <<".","b","a","k">>} |->
                              IF n = actual_path \o <<".","b","a","k">> THEN original_content
                              ELSE codeFiles[n]]
          /\ patchPc' = "write"
       \/ /\ patchPc' = "aborted"
          /\ UNCHANGED codeFiles
    /\ UNCHANGED <<vulns_by_file, fileIdx, actual_path, sorted_vulns, itemIdx,
                   snippet, suggested_code, original_content, patched_content, console>>
    /\ UNCHANGED <<fsVars, fuzzVars, aggVars, scanVars>>

\* apply_patch_to_file: overwrite the target with patched_content; open() may
\* raise OSError, which leaves main
ApplyWrite ==
    /\ patchPc = "write"
    /\ \/ /\ codeFiles' = [codeFiles EXCEPT ![actual_path] = patched_content]
          /\ console' = Append(console, "Patched file saved")
          /\ itemIdx' = itemIdx + 1
          /\ patchPc' = "item"
       \/ /\ patchPc' = "aborted"
          /\ UNCHANGED <<codeFiles, console, itemIdx>>
    /\ UNCHANGED <<vulns_by_file, fileIdx, actual_path, sorted_vulns,
                   snippet, suggested_code, original_content, patched_content>>
    /\ UNCHANGED <<fsVars, fuzzVars, aggVars, scanVars>>

-----------------------------------------------------------------------------
(* Patch workflow runs: a report of at most MaxItems items, two source     *)
(* files                                                                   *)

MaxItems == 2

MainC == <<"f","o","o","(",")",";","\n","b","\n","c","\n","d","\n","e","\n","f","\n","f","o","o","(",")",";","\n">>
UtilC == <<"f","o","o","(",")",";","\n","b","a","r">>

\* a report record as the aggregator writes it
ReportItem(file, line) ==
    [file |-> file, line |-> line, keyword |-> <<"o","v","e","r","f","l","o","w">>,
     threat |-> "Buffer Overflow", cwe |-> "CWE-120: Classic Buffer Overflow",
     line_text |-> <<"w","a","r","n","i","n","g",":"," ","o","v","e","r","f","l","o","w">>]

ReportItems ==
    { ReportItem(<<"m","a","i","n",".","c">>, 1), ReportItem(<<"m","a","i","n",".","c">>, 12), ReportItem(<<"m","a","i","n",".","c">>, 20),
      ReportItem(<<"u","t","i","l",".","c">>, 1), ReportItem(<<"g","o","n","e",".","c">>, 1) }

RECURSIVE ItemLists(_)
ItemLists(n) ==
    IF n = 0 THEN { <<>> }
    ELSE LET shorter == ItemLists(n - 1)
         IN  shorter \cup { Append(l, v) : l \in shorter, v \in ReportItems }

PatchInit ==
    /\ artifacts \in {NoDir} \cup
          { Dir([n \in {REPORT_NAME} |-> json_dump(l)]) : l \in ItemLists(MaxItems) \ {<<>>} }
    /\ staticDir = NoDir
    /\ codeFiles \in { [n \in {<<"u","t","i","l",".","c">>} |-> UtilC],
                       [n \in {<<"u","t","i","l",".","c">>, TARGET_CODE_FILE} |->
                           IF n = <<"u","t","i","l",".","c">> THEN UtilC ELSE MainC] }
    /\ patchPc = "idle"
    /\ vulns_by_file = <<>>
    /\ fileIdx = 0
    /\ actual_path = <<>>
    /\ sorted_vulns = <<>>
    /\ itemIdx = 0
    /\ snippet = <<>>
    /\ suggested_code = <<>>
    /\ original_content = <<>>
    /\ patched_content = <<>>
    /\ console = <<>>
    /\ FuzzIdle
    /\ AggIdle
    /\ ScanIdle

PatchNext ==
    \/ PatchMainStart
    \/ PatchFile
    \/ PatchItem
    \/ PatchPromptReply
    \/ PatchPromptRaises
    \/ PatchExternalEdit
    \/ ApplyRead
    \/ ApplyBackup
    \/ ApplyWrite

PatchSpec == PatchInit /\ [][PatchNext]_vars


-----------------------------------------------------------------------------
(* The pipeline: fuzz sessions and aggregations over one file system       *)

\* files an earlier session and the operator left in test_artifacts/
LeftoverFiles ==
    [n \in {<<"f","u","z","z","_","f","r","e","e","z","e","l","o","g","_","0",".","t","x","t">>, <<"f","u","z","z","_","c","r","a","s","h","l","o","g","_","7",".","t","x","t">>, <<"f","u","z","z","_","i","n","p","u","t","_","7",".","b","i","n">>,
            <<"f","u","z","z","_","c","r","a","s","h","_","n","o","t","e","s",".","t","x","t">>, <<"c","o","n","s","o","l","e","_","l","o","g",".","t","x","t">>} |->
        IF n = <<"f","u","z","z","_","i","n","p","u","t","_","7",".","b","i","n">> THEN <<7>>
        ELSE IF n = <<"f","u","z","z","_","c","r","a","s","h","l","o","g","_","7",".","t","x","t">> THEN CrashLog(<<"M","i","s","s","e","d"," ","d","e","a","d","l","i","n","e","\n">>, <<>>)
        ELSE <<"h","a","r","d"," ","f","a","u","l","t","\n">>]

\* static-analysis output without and with findings
StaticClean ==
    [n \in {<<"c","p","p","c","h","e","c","k","_","r","e","p","o","r","t",".","t","x","t">>, <<"i","n","d","e","x",".","h","t","m","l">>} |-> <<"C","h","e","c","k","i","n","g"," ","m","a","i","n",".","c"," ",".",".",".","\n">>]
StaticFindings ==
    [n \in {<<"c","p","p","c","h","e","c","k","_","r","e","p","o","r","t",".","t","x","t">>, <<"s","c","a","n",".","l","o","g">>} |->
        IF n = <<"s","c","a","n",".","l","o","g">> THEN <<"w","a","r","n","i","n","g",":"," ","S","t","a","c","k"," ","O","v","e","r","f","l","o","w","\n">> ELSE <<"m","a","i","n",".","c",":","3",":"," ","e","r","r","o","r",":"," ","x","\n">>]

Init ==
    /\ artifacts \in {NoDir, Dir(LeftoverFiles)}
    /\ staticDir \in {NoDir, Dir(StaticClean), Dir(StaticFindings)}
    /\ staticDir.exists => artifacts.exists
    /\ FuzzIdle
    /\ AggIdle
    /\ ScanIdle
    /\ PatchIdle

FuzzNext ==
    \/ FuzzMainStart
    \/ FuzzLoop
    \/ FuzzGenerate
    \/ FuzzLaunch
    \/ FuzzWaitCompleted
    \/ FuzzWaitTimeout
    \/ FuzzKillAndDrain
    \/ FuzzClassify

Next ==
    \/ FuzzNext
    \/ FuzzInterrupt
    \/ AnalyzeMain
    \/ AnalyzeExit

Spec == Init /\ [][Next]_vars

\* the fuzz harness alone: sessions and interrupts, no aggregation
HarnessNext ==
    \/ FuzzNext
    \/ FuzzInterrupt

FuzzSpec == Init /\ [][HarnessNext]_vars

ScanNext == ScanCall
\* the scanner called on one file; the other stages stay where they are
ScanStart == ScanInit /\ FsNone /\ FuzzIdle /\ AggIdle /\ PatchIdle
ScanSpec == ScanStart /\ [][ScanNext]_vars


-----------------------------------------------------------------------------
(* Claims about the pipeline                                               *)

\* C4: once the aggregator's main returns, analysis_report.json is present if
\* and only if that aggregation found at least one item, and then holds exactly
\* that aggregation's items. (The code leaves an earlier report in place.)
C4_ReportIffFindings ==
    aggPc = "returned" =>
        /\ (REPORT_NAME \in listdir(artifacts)) <=> (results # <<>>)
        /\ REPORT_NAME \in listdir(artifacts) =>
              json_load(artifacts.files[REPORT_NAME]) = results

\* positions inside fuzz_once
InFuzzOnce == {"generate", "launch", "wait", "timedout", "classify"}
\* the marker occurs in the captured stdout or stderr when case is ignored
MarkerCaptured ==
    \/ OccursIgnoringCase(<<"m","i","s","s","e","d"," ","d","e","a","d","l","i","n","e">>, out)
    \/ OccursIgnoringCase(<<"m","i","s","s","e","d"," ","d","e","a","d","l","i","n","e">>, err)
\* the names whose presence or content a step changes
ChangedNames ==
    {n \in listdir(artifacts) \cup listdir(artifacts') :
        \/ n \notin listdir(artifacts)
        \/ n \notin listdir(artifacts')
        \/ artifacts.files[n] # artifacts'.files[n]}

\* what C5 asks of one step of the harness
C5_Step ==
        fuzzPc \in InFuzzOnce =>
          /\ log_filename(iteration) \notin listdir(artifacts)
          /\ ChangedNames \subseteq {input_filename(iteration), log_filename(iteration)}
          /\ IF fuzzPc = "classify" /\ fuzzPc' = "loop"
             THEN IF MarkerCaptured
                  THEN /\ ChangedNames = {log_filename(iteration)}
                       /\ Contains(out, artifacts'.files[log_filename(iteration)])
                       /\ Contains(err, artifacts'.files[log_filename(iteration)])
                  ELSE ChangedNames = {}
             ELSE log_filename(iteration) \notin listdir(artifacts')

C8_AbsenceNeverFatal ==
    /\ (aggPc = "returned" /\ ~artifacts.exists) => results = <<>>
    /\ fuzzPc # "FileNotFoundError"

\* a fuzz input file, anomaly log or freeze log, by its name
FuzzArtifactPrefixes == {<<"f","u","z","z","_","i","n","p","u","t","_">>, <<"f","u","z","z","_","c","r","a","s","h","l","o","g","_">>, <<"f","u","z","z","_","f","r","e","e","z","e","l","o","g","_">>}
IsFuzzArtifact(name) ==
    \E pre \in FuzzArtifactPrefixes :
        /\ Len(name) >= Len(pre)
        /\ \A j \in 1..Len(pre) : name[j] = pre[j]

\* what C9 asks of the step that runs clear_old_logs
C9_Step ==
        (fuzzPc \in FuzzEnded /\ fuzzPc' = "loop") =>
          /\ artifacts'.exists = artifacts.exists
          /\ \A n \in listdir(artifacts') : ~IsFuzzArtifact(n)
          /\ listdir(artifacts') \subseteq listdir(artifacts)
          /\ \A n \in listdir(artifacts) :
                ~IsFuzzArtifact(n) =>
                    /\ n \in listdir(artifacts')
                    /\ artifacts'.files[n] = artifacts.files[n]
          /\ clear_old_logs(artifacts') = artifacts'

\* C9: after clear_old_logs the directory holds no fuzz input file and no
\* anomaly or freeze log, every other file is unchanged, and a further
\* clear_old_logs on the purged (or absent) directory changes nothing.
C9_PurgeIdempotent == [][C9_Step]_vars

\* C9 witness: a session has just purged a directory that held leftovers of an
\* earlier session; the other files are still there.
C9_Witness ==
    /\ fuzzPc = "loop"
    /\ iteration = 0
    /\ artifacts.exists
    /\ {<<"c","o","n","s","o","l","e","_","l","o","g",".","t","x","t">>, <<"f","u","z","z","_","c","r","a","s","h","_","n","o","t","e","s",".","t","x","t">>} \subseteq listdir(artifacts)
    /\ \A n \in listdir(artifacts) : ~IsFuzzArtifact(n)

\* C10: when the session is cancelled while an emulator is in flight, the
\* harness has terminated that process by the time it exits.
C10_InterruptTerminatesEmulator ==
    fuzzPc = "KeyboardInterrupt" => proc # "running"

\* positions of fuzz_once from the launch of the emulator on
Launched == {"wait", "timedout", "classify"}

\* from the launch on, the input file of the running iteration exists and holds
\* the payload drawn for the iteration
PayloadPersisted ==
    fuzzPc \in Launched =>
        /\ artifacts.exists
        /\ input_filename(iteration) \in listdir(artifacts)
        /\ artifacts.files[input_filename(iteration)] = fuzz_data

\* C11: from the launch on (also on a timeout) the input file of the running
\* iteration exists and holds exactly the bytes that were sent to the emulator.
C11_InputFileHoldsSentBytes ==
    /\ PayloadPersisted
    /\ fuzzPc \in {"timedout", "classify"} =>
          artifacts.files[input_filename(iteration)] = sent

\* what C12 asks of a launch: no emulator of the session is alive, and the
\* process of the previous iteration has exited or been killed and its output
\* has been read
C12_Step ==
    (fuzzPc = "launch" /\ fuzzPc' = "wait") =>
        /\ emulators.session = {}
        /\ emulators'.session = {iteration}
        /\ iteration > 0 => proc \in {"exited", "killed"}

-----------------------------------------------------------------------------
(* Claims about the patch workflow                                         *)

\* the text needle occurs verbatim in text
OccursVerbatim(needle, text) ==
    \E off \in 0..(Len(text) - Len(needle)) :
        \A j \in 1..Len(needle) : text[off + j] = needle[j]

backup_path(file_path) == file_path \o <<".","b","a","k">>

\* what C2 asks of the step that enters apply_patch_to_file
C2_Step ==
    (patchPc = "apply" /\ ~OccursVerbatim(join(snippet), codeFiles[actual_path])) =>
        /\ codeFiles' = codeFiles
        /\ patchPc' = "item"
        /\ console' = Append(console, "WARNING: Could not apply patch")

\* C2: when the original snippet does not occur verbatim in the current file
\* content, apply_patch_to_file leaves the target byte-identical, writes no
\* backup and surfaces a warning.
C2_SnippetNotFoundNoWrite == [][C2_Step]_vars

\* C2 witness: the target was edited out of band ("foo();" became "foo ();"),
\* the snippet read before is no longer in it, the call warned and returned,
\* and there is no backup.
C2_Witness ==
    /\ patchPc = "item"
    /\ console # <<>>
    /\ console[Len(console)] = "WARNING: Could not apply patch"
    /\ snippet # <<>>
    /\ OccursVerbatim(<<"f","o","o","(",")",";">>, join(snippet))
    /\ ~OccursVerbatim(join(snippet), codeFiles[actual_path])
    /\ OccursVerbatim(<<"f","o","o"," ","(",")",";">>, codeFiles[actual_path])
    /\ backup_path(actual_path) \notin DOMAIN codeFiles

\* what C3 asks of a step of the workflow that changes a source file
C3_Step ==
    patchPc # "prompt" =>
        \A f \in DOMAIN codeFiles :
            (~endswith(f, <<".","b","a","k">>) /\ codeFiles'[f] # codeFiles[f]) =>
                /\ backup_path(f) \in DOMAIN codeFiles
                /\ codeFiles[backup_path(f)] = codeFiles[f]

\* C3: whenever apply_patch_to_file overwrites the target, the backup
\* (target path + ".bak") has been written before and holds exactly the
\* content the target had immediately before that patch.
C3_BackupBeforeOverwrite == [][C3_Step]_vars

\* C3 witness: a patch has just been applied; the backup exists and differs
\* from the patched target.
C3_Witness ==
    /\ patchPc = "item"
    /\ console # <<>>
    /\ console[Len(console)] = "Patched file saved"
    /\ backup_path(actual_path) \in DOMAIN codeFiles
    /\ codeFiles[backup_path(actual_path)] = original_content
    /\ codeFiles[actual_path] = patched_content
    /\ patched_content # original_content

\* what C13 asks of every step of the workflow: a backup, which holds the
\* content a file had before an applied patch, keeps that content
C13_Step ==
    \A f \in DOMAIN codeFiles :
        endswith(f, <<".","b","a","k">>) => (f \in DOMAIN codeFiles' /\ codeFiles'[f] = codeFiles[f])

\* C13: every applied patch stays reversible: the content a file had before
\* each applied patch, and so its content from before the run, remains
\* recoverable from the backup, also after several patches to the same file.
C13_EveryPatchReversible == [][C13_Step]_vars

\* text begins with pre and ends with post, the two not overlapping
FramedBy(text, pre, post) ==
    /\ Len(text) >= Len(pre) + Len(post)
    /\ SubSeq(text, 1, Len(pre)) = pre
    /\ SubSeq(text, Len(text) - Len(post) + 1, Len(text)) = post

\* what C14 asks of the step that overwrites the target: the lines before and
\* after the window line-5 .. line+5 of the item (clipped to the file) are in
\* the new content as they were
C14_Step ==
    (patchPc = "write" /\ codeFiles'[actual_path] # codeFiles[actual_path]) =>
        LET lines == readlines(codeFiles[actual_path])
            line_num == sorted_vulns[itemIdx].line
            start_line == Min(Len(lines), Max(0, line_num - 5 - 1))
            end_line == Max(start_line, Min(Len(lines), line_num + 5))
        IN  FramedBy(codeFiles'[actual_path],
                     join(SubSeq(lines, 1, start_line)),
                     join(SubSeq(lines, end_line + 1, Len(lines))))

\* C14: an applied patch changes the target only inside the snippet window of
\* the item; everything outside it is unchanged, also when the snippet text
\* occurs more than once and when the line number lies beyond the end of the
\* file.
C14_PatchConfinedToWindow == [][C14_Step]_vars

\* messages that end the handling of one item
ItemOutcomes ==
    {"Cannot read snippet", "No clear code block", "WARNING: Could not apply patch",
     "Patched file saved"}
\* items of the report whose file the workflow can resolve
ResolvableItems ==
    SelectSeq(load_analysis_report(artifacts),
              LAMBDA v : v.file \in DOMAIN codeFiles \/ v.file = basename(TARGET_CODE_FILE))

\* C6: a failure while handling one item (unreadable snippet, failed or
\* erroring code-generation request, no code block, snippet not found, failed
\* file write) never aborts the run: when the run is over, every item of every
\* resolvable file has been handled.
C6_ItemFailureNeverAborts ==
    patchPc \in {"finished", "aborted"} =>
        /\ patchPc = "finished"
        /\ Len(SelectSeq(console, LAMBDA m : m \in ItemOutcomes)) = Len(ResolvableItems)


-----------------------------------------------------------------------------
(* A fuzz session that is not interrupted: every step of a started session *)
(* returns (sleep, file writes, the bounded wait, kill and drain)          *)

FuzzStep ==
    \/ FuzzLoop
    \/ FuzzGenerate
    \/ FuzzLaunch
    \/ FuzzWaitCompleted
    \/ FuzzWaitTimeout
    \/ FuzzKillAndDrain
    \/ FuzzClassify

FuzzLiveSpec == Init /\ [][FuzzNext]_vars /\ WF_vars(FuzzStep)

\* what C7 asks of the step after TimeoutExpired
C7_Step == fuzzPc = "timedout" => (proc' = "killed" /\ fuzzPc' = "classify")

\* C7: when the bounded wait expires the process is killed and drained and the
\* session continues: whatever the pattern of timeouts, all NUM_ITERATIONS
\* iterations are executed and the session reaches its completion message.
C7_TimeoutThenCompletes ==
    /\ [][C7_Step]_vars
    /\ (fuzzPc = "timedout") ~> (fuzzPc = "done" /\ iteration = NUM_ITERATIONS)

\* C7 witness: the session completed and its last iteration had timed out.
C7_Witness ==
    /\ fuzzPc = "done"
    /\ iteration = NUM_ITERATIONS
    /\ proc = "killed"

=============================================================================
